---- MODULE Spec2Model ----
(***************************************************************************)
(* Model of send_top_episodes.py: the top-N filter, the diff of the        *)
(* current top-N list against the one of the last commit, and the loop of  *)
(* main over the configured data sources.                                  *)
(*                                                                         *)
(* Python values are modelled as follows.  A JSON object (dict) is a       *)
(* function from its keys; an episode is such a function and may lack any  *)
(* key.  None and the other tagged values are records with a "tag" field.  *)
(* The Chinese string literals of the source are written in ASCII:         *)
(* "Comedy" stands for the excluded genre of line 165, " (new N)" for the  *)
(* annotation of the title of line 195, "hot Top 20" and "new Top 20" for  *)
(* the two configured titles.  The markdown text of the card is not        *)
(* modelled beyond the entries it lists.                                   *)
(***************************************************************************)
EXTENDS Integers, Sequences, FiniteSets, TLC

VARIABLES
    file,             \* the data file of the source being processed, as on disk
    head,             \* what `git show HEAD:<file>` gives for that file
    exclude_genres,   \* parameter exclude_genres
    top_n,            \* parameter top_n
    ret,              \* FnSpec: the value returned by the function called
    pc,               \* position in main / process_and_send (FnSpec: the function called)
    idx,              \* 1-based index of the data source in data_sources
    current_episodes, \* local of get_new_episodes (None until loaded)
    last_data,        \* local of get_new_episodes (None until fetched)
    new_episodes,     \* local of process_and_send
    message,          \* the card built by build_feishu_message
    response,         \* what the webhook did with the POST of this source
    result,           \* what process_and_send returned to main
    success_count,    \* main's tally of sent sources
    skip_count,       \* main's tally of skipped sources
    posts,            \* history: number of POSTs issued, per source
    results           \* history: how process_and_send ended, per source

vars == <<file, head, exclude_genres, top_n, ret, pc, idx, current_episodes,
          last_data, new_episodes, message, response, result, success_count,
          skip_count, posts, results>>

---------------------------------------------------------------------------
(* Bounds of the model.                                                    *)

\* longest episode list of a current file, FnSpec
MaxCur == 3
\* longest episode list of a committed file, FnSpec
MaxLast == 2
\* largest top_n passed to the functions, FnSpec
MaxN == 2
\* longest episode list of a current file in a run of main
RunMaxCur == 2
\* longest episode list of a committed file in a run of main
RunMaxLast == 1

---------------------------------------------------------------------------
(* Python values.                                                          *)

NoneV == [tag |-> "None"]
ListV(s) == [tag |-> "list", val |-> s]
SetV(S) == [tag |-> "set", val |-> S]

\* the value dict.get(key) gives for a missing key of an episode
FieldNone == "<None>"

EmptyObj == [k \in {} |-> 0]

Get(d, k, default) == IF k \in DOMAIN d THEN d[k] ELSE default

Min(a, b) == IF a <= b THEN a ELSE b

Range(s) == {s[i] : i \in 1..Len(s)}

\* s[:n] for n >= 0
Take(s, n) == SubSeq(s, 1, Min(n, Len(s)))

---------------------------------------------------------------------------
(* The inputs: episodes, documents, files, commits.                        *)

\* Episodes with a tie in playCount (1 and 2), one identity in two genres
\* (1 and 3), the most popular one excluded (3), and missing playCount and
\* primaryGenreName with a title shared with another podcast (4).
EpisodePool ==
    { [title |-> "A", podcastName |-> "P", playCount |-> 2, primaryGenreName |-> "Tech"],
      [title |-> "B", podcastName |-> "P", playCount |-> 2, primaryGenreName |-> "Tech"],
      [title |-> "A", podcastName |-> "P", playCount |-> 3, primaryGenreName |-> "Comedy"],
      [title |-> "A", podcastName |-> "Q"] }

Genres == {"Comedy", "Tech"}

SeqsUpTo(n) == UNION {[1..k -> EpisodePool] : k \in 0..n}

\* JSON objects: {}, one with no "data", one whose "data" has no
\* "episodes", and those with a list of episodes.
Docs(n) ==
    {EmptyObj, [updated |-> "today"], [data |-> EmptyObj]}
    \cup {[data |-> [episodes |-> s]] : s \in SeqsUpTo(n)}

NoFile == [tag |-> "missing"]
BadJson == [tag |-> "invalid_json"]
GitError == [tag |-> "git_error"]
JsonV(d) == [tag |-> "json", val |-> d]

\* the states of the file on disk
Files(n) == {NoFile, BadJson} \cup {JsonV(d) : d \in Docs(n)}

\* the states of the file at HEAD
Heads(n) == {GitError, BadJson} \cup {JsonV(d) : d \in Docs(n)}

---------------------------------------------------------------------------
(* The pure functions.                                                     *)

PlayCount(ep) == Get(ep, "playCount", 0)

GenreOf(ep) == Get(ep, "primaryGenreName", FieldNone)

Identity(ep) == <<Get(ep, "title", FieldNone), Get(ep, "podcastName", FieldNone)>>

\* The place of s[i] in the sorted list: behind every element of greater
\* key and, among those of equal key, behind the ones that come first in s.
SortRank_TiesReversed(s, i) ==
    1 + Cardinality({j \in 1..Len(s) :
            \/ PlayCount(s[j]) > PlayCount(s[i])
            \/ PlayCount(s[j]) = PlayCount(s[i]) /\ j > i})

SortRank(s, i) ==
    1 + Cardinality({j \in 1..Len(s) :
            \/ PlayCount(s[j]) > PlayCount(s[i])
            \/ PlayCount(s[j]) = PlayCount(s[i]) /\ j < i})

\* sorted(s, key=lambda x: x.get("playCount", 0), reverse=True): a stable
\* sort, which with reverse=True still keeps equal keys in input order
SortedDesc(s) ==
    [k \in 1..Len(s) |-> s[CHOOSE i \in 1..Len(s) : SortRank(s, i) = k]]

\* data.get("data", {}).get("episodes", [])
EpisodesOf(d) == Get(Get(d, "data", EmptyObj), "episodes", <<>>)

\* open + json.load succeed
Loadable(f) == f.tag = "json"

\* `not last_data` is false
Truthy(v) == v # NoneV /\ DOMAIN v # {}

get_last_commit_content(h) == IF h.tag = "json" THEN h.val ELSE NoneV

get_top_list_set_NoSlice(episodes, exclude, n) ==
    LET filtered == SelectSeq(episodes, LAMBDA ep : GenreOf(ep) \notin exclude)
        sorted_eps == SortedDesc(filtered)
    IN  {Identity(ep) : ep \in Range(sorted_eps)}

get_top_list_set(episodes, exclude, n) ==
    LET filtered == SelectSeq(episodes, LAMBDA ep : GenreOf(ep) \notin exclude)
        sorted_eps == Take(SortedDesc(filtered), n)
    IN  {Identity(ep) : ep \in Range(sorted_eps)}

filter_and_sort_episodes(episodes, exclude, n) ==
    LET filtered == SelectSeq(episodes, LAMBDA ep : GenreOf(ep) \notin exclude)
        sorted_episodes == SortedDesc(filtered)
    IN  Take(sorted_episodes, n)

\* lines 59-63: the sorted list get_new_episodes builds for itself
new_episodes_sorted(current, exclude, n) ==
    LET filtered == SelectSeq(current, LAMBDA ep : GenreOf(ep) \notin exclude)
    IN  Take(SortedDesc(filtered), n)

\* lines 46-65: the diff, once both snapshots are there
diff_episodes(current, last, exclude, n) ==
    LET last_episodes == EpisodesOf(last)
        current_set == get_top_list_set(current, exclude, n)
        last_set == get_top_list_set(last_episodes, exclude, n)
        new_keys == current_set \ last_set
    IN  IF new_keys = {} THEN <<>>
        ELSE SelectSeq(new_episodes_sorted(current, exclude, n),
                       LAMBDA ep : Identity(ep) \in new_keys)

get_new_episodes(f, h, exclude, n) ==
    IF ~Loadable(f) THEN NoneV
    ELSE LET last == get_last_commit_content(h)
         IN  IF ~Truthy(last) THEN NoneV
             ELSE ListV(diff_episodes(EpisodesOf(f.val), last, exclude, n))

---------------------------------------------------------------------------
(* Configuration of main and process_and_send.                             *)

\* the entries of data_sources
NumSources == 2

Sources == 1..NumSources

SourceTitle(i) == IF i = 1 THEN "hot Top 20" ELSE "new Top 20"

\* top_n=20 at the call of process_and_send
TopN == 20

\* exclude_genres of process_and_send
ExcludeGenres == {"Comedy"}

\* what the webhook does with a POST: answers {"code": 0}, answers another
\* code, or the request fails (connection error, timeout, HTTP error status)
Responses == {"code_0", "code_nonzero", "transport_error"}

---------------------------------------------------------------------------
(* The message.                                                            *)

\* format_episode_for_feishu, without the play count string and the link
format_episode_for_feishu(ep, rank) ==
    [rank |-> rank,
     title |-> Get(ep, "title", ""),
     podcast |-> Get(ep, "podcastName", ""),
     genre |-> Get(ep, "primaryGenreName", "")]

build_feishu_message(episodes, title) ==
    [title |-> title,
     entries |-> [i \in 1..Len(episodes) |-> format_episode_for_feishu(episodes[i], i)]]

msg_title_Plain(title, n) == title

\* line 195
msg_title(title, n) == title \o " (new " \o ToString(n) \o ")"

---------------------------------------------------------------------------
(* FnSpec: the functions, called on every input within the bounds.         *)

Idle ==
    /\ idx = 0
    /\ current_episodes = NoneV
    /\ last_data = NoneV
    /\ new_episodes = NoneV
    /\ message = NoneV
    /\ response = "none"
    /\ result = "pending"
    /\ success_count = 0
    /\ skip_count = 0
    /\ posts = [i \in Sources |-> 0]
    /\ results = [i \in Sources |-> "pending"]

run_vars == <<idx, current_episodes, last_data, new_episodes, message, response,
              result, success_count, skip_count, posts, results>>

FnInit ==
    /\ file \in Files(MaxCur)
    /\ head = GitError
    /\ exclude_genres \in SUBSET Genres
    /\ top_n \in 0..MaxN
    /\ ret = NoneV
    /\ pc = "args"
    /\ Idle

CallFilterAndSort ==
    /\ pc = "args"
    /\ Loadable(file)
    /\ ret' = ListV(filter_and_sort_episodes(EpisodesOf(file.val), exclude_genres, top_n))
    /\ pc' = "filter_and_sort_episodes"
    /\ UNCHANGED <<file, head, exclude_genres, top_n, run_vars>>

CallGetTopListSet ==
    /\ pc = "args"
    /\ Loadable(file)
    /\ ret' = SetV(get_top_list_set(EpisodesOf(file.val), exclude_genres, top_n))
    /\ pc' = "get_top_list_set"
    /\ UNCHANGED <<file, head, exclude_genres, top_n, run_vars>>

\* The commit is any within the bounds, or the very content of the file.
CallGetNewEpisodes ==
    /\ pc = "args"
    /\ \E h \in Heads(MaxLast) \cup ({file} \ {NoFile}) :
          /\ head' = h
          /\ ret' = get_new_episodes(file, h, exclude_genres, top_n)
    /\ pc' = "get_new_episodes"
    /\ UNCHANGED <<file, exclude_genres, top_n, run_vars>>

FnNext == CallFilterAndSort \/ CallGetTopListSet \/ CallGetNewEpisodes

FnSpec == FnInit /\ [][FnNext]_vars

---------------------------------------------------------------------------
(* Spec: one run of main with a webhook URL.                               *)

Init ==
    /\ file = NoFile
    /\ head = GitError
    /\ exclude_genres = ExcludeGenres
    /\ top_n = TopN
    /\ ret = NoneV
    /\ pc = "loop"
    /\ idx = 1
    /\ current_episodes = NoneV
    /\ last_data = NoneV
    /\ new_episodes = NoneV
    /\ message = NoneV
    /\ response = "none"
    /\ result = "pending"
    /\ success_count = 0
    /\ skip_count = 0
    /\ posts = [i \in Sources |-> 0]
    /\ results = [i \in Sources |-> "pending"]

params == <<exclude_genres, top_n, ret>>

\* line 227-229, 163-172: the next source; its file is in any state
Begin ==
    /\ pc = "loop"
    /\ idx <= NumSources
    /\ \E f \in Files(RunMaxCur) : file' = f
    /\ head' = GitError
    /\ current_episodes' = NoneV
    /\ last_data' = NoneV
    /\ new_episodes' = NoneV
    /\ message' = NoneV
    /\ response' = "none"
    /\ result' = "pending"
    /\ pc' = "load"
    /\ UNCHANGED <<params, idx, success_count, skip_count, posts, results>>

\* lines 34-39
LoadCurrent ==
    /\ pc = "load"
    /\ IF Loadable(file)
       THEN /\ current_episodes' = ListV(EpisodesOf(file.val))
            /\ pc' = "last"
       ELSE /\ current_episodes' = current_episodes
            /\ pc' = "branch"
    /\ UNCHANGED <<params, file, head, idx, last_data, new_episodes, message,
                   response, result, success_count, skip_count, posts, results>>

\* lines 42-44: the commit is in any state
GetLastCommit ==
    /\ pc = "last"
    /\ \E h \in Heads(RunMaxLast) :
          /\ head' = h
          /\ last_data' = get_last_commit_content(h)
          /\ pc' = IF Truthy(get_last_commit_content(h)) THEN "diff" ELSE "branch"
    /\ UNCHANGED <<params, file, idx, current_episodes, new_episodes, message,
                   response, result, success_count, skip_count, posts, results>>

\* lines 46-65
ComputeNew ==
    /\ pc = "diff"
    /\ new_episodes' = ListV(diff_episodes(current_episodes.val, last_data,
                                           exclude_genres, top_n))
    /\ pc' = "branch"
    /\ UNCHANGED <<params, file, head, idx, current_episodes, last_data, message,
                   response, result, success_count, skip_count, posts, results>>

\* lines 174-181
Branch ==
    /\ pc = "branch"
    /\ IF new_episodes = NoneV
       THEN pc' = "reload" /\ result' = result
       ELSE IF Len(new_episodes.val) = 0
            THEN pc' = "tally" /\ result' = "None"
            ELSE pc' = "build" /\ result' = result
    /\ UNCHANGED <<params, file, head, idx, current_episodes, last_data, new_episodes,
                   message, response, success_count, skip_count, posts, results>>

\* lines 177-178: load_episodes raises what open and json.load raise
Reload ==
    /\ pc = "reload"
    /\ IF Loadable(file)
       THEN /\ new_episodes' = ListV(filter_and_sort_episodes(EpisodesOf(file.val),
                                                              exclude_genres, top_n))
            /\ result' = result
            /\ pc' = "build"
       ELSE /\ new_episodes' = new_episodes
            /\ result' = IF file = NoFile THEN "FileNotFoundError" ELSE "JSONDecodeError"
            /\ pc' = "except"
    /\ UNCHANGED <<params, file, head, idx, current_episodes, last_data, message,
                   response, success_count, skip_count, posts, results>>

\* lines 183-196
Build ==
    /\ pc = "build"
    /\ message' = build_feishu_message(new_episodes.val,
                      msg_title(SourceTitle(idx), Len(new_episodes.val)))
    /\ pc' = "send"
    /\ UNCHANGED <<params, file, head, idx, current_episodes, last_data, new_episodes,
                   response, result, success_count, skip_count, posts, results>>

Send_Retry ==
    /\ pc = "send"
    /\ \E r \in Responses :
          /\ response' = r
          /\ result' = IF r = "code_0" THEN "True" ELSE result
          /\ pc' = IF r = "code_0" THEN "tally" ELSE "send"
    /\ posts' = [posts EXCEPT ![idx] = @ + 1]
    /\ UNCHANGED <<params, file, head, idx, current_episodes, last_data, new_episodes,
                   message, success_count, skip_count, results>>

\* lines 200, 147-160
Send ==
    /\ pc = "send"
    /\ \E r \in Responses :
          /\ response' = r
          /\ result' = CASE r = "code_0" -> "True"
                         [] r = "code_nonzero" -> "False"
                         [] OTHER -> "RequestException"
          /\ pc' = IF r = "transport_error" THEN "except" ELSE "tally"
    /\ posts' = [posts EXCEPT ![idx] = @ + 1]
    /\ UNCHANGED <<params, file, head, idx, current_episodes, last_data, new_episodes,
                   message, success_count, skip_count, results>>

Tally_FalseAsSkipped ==
    /\ pc = "tally"
    /\ success_count' = IF result = "True" THEN success_count + 1 ELSE success_count
    /\ skip_count' = IF result # "True" THEN skip_count + 1 ELSE skip_count
    /\ results' = [results EXCEPT ![idx] = result]
    /\ idx' = idx + 1
    /\ pc' = "loop"
    /\ UNCHANGED <<params, file, head, current_episodes, last_data, new_episodes,
                   message, response, result, posts>>

\* lines 230-233
Tally ==
    /\ pc = "tally"
    /\ success_count' = IF result = "True" THEN success_count + 1 ELSE success_count
    /\ skip_count' = IF result = "None" THEN skip_count + 1 ELSE skip_count
    /\ results' = [results EXCEPT ![idx] = result]
    /\ idx' = idx + 1
    /\ pc' = "loop"
    /\ UNCHANGED <<params, file, head, current_episodes, last_data, new_episodes,
                   message, response, result, posts>>

Except_Abort ==
    /\ pc = "except"
    /\ results' = [results EXCEPT ![idx] = result]
    /\ pc' = "aborted"
    /\ UNCHANGED <<params, file, head, idx, current_episodes, last_data, new_episodes,
                   message, response, result, success_count, skip_count, posts>>

\* lines 234-237
Except ==
    /\ pc = "except"
    /\ results' = [results EXCEPT ![idx] = result]
    /\ idx' = idx + 1
    /\ pc' = "loop"
    /\ UNCHANGED <<params, file, head, current_episodes, last_data, new_episodes,
                   message, response, result, success_count, skip_count, posts>>

\* line 239
Finish ==
    /\ pc = "loop"
    /\ idx > NumSources
    /\ pc' = "done"
    /\ UNCHANGED <<params, file, head, idx, current_episodes, last_data, new_episodes,
                   message, response, result, success_count, skip_count, posts, results>>

Next ==
    \/ Begin
    \/ LoadCurrent
    \/ GetLastCommit
    \/ ComputeNew
    \/ Branch
    \/ Reload
    \/ Build
    \/ Send
    \/ Tally
    \/ Except
    \/ Finish

Spec == Init /\ [][Next]_vars

---------------------------------------------------------------------------
(* Properties of the functions (FnSpec).                                   *)

NotExcluded(episodes) ==
    SelectSeq(episodes, LAMBDA ep : GenreOf(ep) \notin exclude_genres)

WithPlayCount(episodes, v) == SelectSeq(episodes, LAMBDA ep : PlayCount(ep) = v)

IdentitiesOf(episodes) == {Identity(ep) : ep \in Range(episodes)}

\* the previous snapshot was retrieved from version control
Retrieved(h) == get_last_commit_content(h) # NoneV

\* C1: for a retrieved previous snapshot, get_new_episodes returns exactly
\* the items of the current top-N list whose identity does not occur in the
\* previous top-N list, in the order of the current top-N list.
C1_DiffIsNewSubsequence ==
    (pc = "get_new_episodes" /\ Loadable(file) /\ Retrieved(head)) =>
        LET current_top == filter_and_sort_episodes(EpisodesOf(file.val),
                                                    exclude_genres, top_n)
            previous_top == filter_and_sort_episodes(EpisodesOf(head.val),
                                                     exclude_genres, top_n)
        IN  ret = ListV(SelectSeq(current_top,
                    LAMBDA ep : Identity(ep) \notin IdentitiesOf(previous_top)))

\* C2: the diff of a snapshot against an identical previous snapshot is the
\* empty list, never the no-baseline sentinel.
C2_IdenticalSnapshotEmptyDiff ==
    (pc = "get_new_episodes" /\ Loadable(file) /\ head = file) => ret = ListV(<<>>)

\* C3: for a loadable current snapshot, get_new_episodes returns None if and
\* only if the previous snapshot could not be retrieved.
C3_SentinelIffUnavailable ==
    (pc = "get_new_episodes" /\ Loadable(file)) => (ret = NoneV <=> ~Retrieved(head))

\* C6: the output of filter_and_sort_episodes has at most top_n items and at
\* most as many as are not excluded, holds no excluded item, is
\* non-increasing in playCount, keeps the input order of items of equal
\* playCount, and is a fixed point of the function.
C6_RankedList ==
    pc = "filter_and_sort_episodes" =>
        LET kept == NotExcluded(EpisodesOf(file.val))
            out == ret.val
        IN  /\ Len(out) <= top_n
            /\ Len(out) <= Len(kept)
            /\ \A i \in 1..Len(out) : GenreOf(out[i]) \notin exclude_genres
            /\ \A i \in 1..(Len(out) - 1) : PlayCount(out[i]) >= PlayCount(out[i + 1])
            /\ \A i \in 1..Len(out) :
                  LET v == PlayCount(out[i])
                      o == WithPlayCount(out, v)
                  IN  o = SubSeq(WithPlayCount(kept, v), 1, Len(o))
            /\ filter_and_sort_episodes(out, exclude_genres, top_n) = out

\* an excluded item is more popular than everything returned, and two
\* different items of equal playCount are returned
C6_Witness ==
    /\ pc = "filter_and_sort_episodes"
    /\ Len(ret.val) = 2
    /\ ret.val[1] # ret.val[2]
    /\ PlayCount(ret.val[1]) = PlayCount(ret.val[2])
    /\ \E i \in 1..Len(EpisodesOf(file.val)) :
          /\ GenreOf(EpisodesOf(file.val)[i]) \in exclude_genres
          /\ PlayCount(EpisodesOf(file.val)[i]) > PlayCount(ret.val[1])

\* C10: the three top-N computations agree: get_top_list_set returns the
\* identities of the list of filter_and_sort_episodes, and the list that
\* get_new_episodes sorts for itself is that list.
C10_TopNComputationsAgree ==
    Loadable(file) =>
        LET top == filter_and_sort_episodes(EpisodesOf(file.val), exclude_genres, top_n)
        IN  /\ pc = "get_top_list_set" => ret = SetV(IdentitiesOf(top))
            /\ new_episodes_sorted(EpisodesOf(file.val), exclude_genres, top_n) = top

\* the slice cuts the list, behind an identity that is only in the cut part
C10_Witness ==
    /\ pc = "get_top_list_set"
    /\ top_n > 0
    /\ Len(NotExcluded(EpisodesOf(file.val))) > top_n
    /\ ret.val # IdentitiesOf(NotExcluded(EpisodesOf(file.val)))

---------------------------------------------------------------------------
(* Properties of the run (Spec).                                           *)

\* a source has just been finished: its file, commit and response are
\* still in place, its index is idx - 1
Finished == pc \in {"loop", "done"} /\ idx > 1

Failures == {"False", "FileNotFoundError", "JSONDecodeError", "RequestException"}

\* no identity of the current top-N list is absent from the previous one
NothingNew ==
    get_top_list_set(EpisodesOf(file.val), exclude_genres, top_n)
        \subseteq get_top_list_set(EpisodesOf(head.val), exclude_genres, top_n)

\* the entries of a card that lists the given episodes
EntriesOf(episodes) ==
    [i \in 1..Len(episodes) |-> format_episode_for_feishu(episodes[i], i)]

\* C4: when a previous snapshot was retrieved and the current top-N list
\* holds nothing new, no POST is issued and the source is counted as
\* skipped; no card without entries is sent while a baseline exists.
C4_NothingNewIsSkipped ==
    /\ (Finished /\ Loadable(file) /\ Retrieved(head) /\ NothingNew) =>
          (posts[idx - 1] = 0 /\ results[idx - 1] = "None")
    /\ (pc = "send" /\ Retrieved(head)) => Len(message.entries) > 0

\* C5 as stated: without a baseline the card lists the full current top-N
\* list under the plain configured title; with one, the title carries the
\* number of entries of the card.
C5_PlainTitleWithoutBaseline ==
    pc = "send" =>
        IF ~Truthy(last_data)
        THEN /\ message.title = SourceTitle(idx)
             /\ message.entries = EntriesOf(filter_and_sort_episodes(
                                      EpisodesOf(file.val), exclude_genres, top_n))
        ELSE message.title =
                 SourceTitle(idx) \o " (new " \o ToString(Len(message.entries)) \o ")"

\* C5 amended: without a baseline the card lists the full current top-N
\* list; in every outcome the title of a card is the configured title
\* followed by the number of entries of the card.
C5_TitleAlwaysCarriesCount ==
    pc = "send" =>
        /\ message.title =
               SourceTitle(idx) \o " (new " \o ToString(Len(message.entries)) \o ")"
        /\ ~Truthy(last_data) =>
               message.entries = EntriesOf(filter_and_sort_episodes(
                                     EpisodesOf(file.val), exclude_genres, top_n))

\* a card with two entries is about to be sent without a baseline
C5_Witness ==
    /\ pc = "send"
    /\ ~Truthy(last_data)
    /\ Len(message.entries) = 2

\* process_and_send as a function of the file, the commit and the webhook's
\* answer of one source: what main gets back from it
process_and_send_outcome(f, h, r) ==
    IF ~Loadable(f)
    THEN IF f = NoFile THEN "FileNotFoundError" ELSE "JSONDecodeError"
    ELSE LET new == get_new_episodes(f, h, ExcludeGenres, TopN)
         IN  IF new # NoneV /\ new.val = <<>> THEN "None"
             ELSE CASE r = "code_0" -> "True"
                    [] r = "code_nonzero" -> "False"
                    [] OTHER -> "RequestException"

\* a step that ends a failed source
FailureStep == pc = "except" \/ (pc = "tally" /\ result = "False")

\* the steps the run has left at most: the sources still to come, and
\* the position within the current one
StepsLeft ==
    (NumSources + 1 - idx) * 12 +
        (CASE pc = "loop" -> 11
           [] pc = "load" -> 10
           [] pc = "last" -> 9
           [] pc = "diff" -> 8
           [] pc = "branch" -> 7
           [] pc = "reload" -> 6
           [] pc = "build" -> 5
           [] pc = "send" -> 4
           [] pc = "tally" -> 3
           [] pc = "except" -> 2
           [] OTHER -> 0)

\* the action of the current position can be taken
CanStep ==
    \/ pc = "loop" /\ ENABLED (Begin \/ Finish)
    \/ pc = "load" /\ ENABLED LoadCurrent
    \/ pc = "last" /\ ENABLED GetLastCommit
    \/ pc = "diff" /\ ENABLED ComputeNew
    \/ pc = "branch" /\ ENABLED Branch
    \/ pc = "reload" /\ ENABLED Reload
    \/ pc = "build" /\ ENABLED Build
    \/ pc = "send" /\ ENABLED Send
    \/ pc = "tally" /\ ENABLED Tally
    \/ pc = "except" /\ ENABLED Except

\* C7: a failed source leaves the counters and the other sources' outcomes
\* alone and hands over to the next source; every source ends as its own
\* file, commit and webhook answer decide; the run reaches the summary with
\* every source processed: before the summary a step is always possible,
\* and every step lessens the steps left.
C7_FailureIsolation ==
    /\ [][/\ FailureStep =>
                /\ idx' = idx + 1
                /\ pc' = "loop"
                /\ success_count' = success_count
                /\ skip_count' = skip_count
                /\ posts' = posts
                /\ \A j \in Sources \ {idx} : results'[j] = results[j]
          /\ StepsLeft' < StepsLeft
          /\ StepsLeft' >= 0]_vars
    /\ [](Finished => results[idx - 1] = process_and_send_outcome(file, head, response))
    /\ [](pc = "done" => \A i \in Sources : results[i] # "pending")
    /\ [](pc # "done" => CanStep)

\* the first source failed in the POST, the second was sent
C7_Witness ==
    /\ pc = "done"
    /\ results[1] = "RequestException"
    /\ results[2] = "True"
    /\ success_count = 1

\* C8 as stated: at the end every source is in exactly one tally.  main
\* keeps two tallies, success_count and skip_count, and none of failures.
C8_EverySourceInATally ==
    pc = "done" => success_count + skip_count = NumSources

\* C8 amended: main keeps the tallies sent and skipped only.  A source is
\* counted sent only if the webhook answered code 0, skipped only if a
\* baseline existed with nothing new, and in neither tally on a load error,
\* a transport error or an answer with another code; at the end sent plus
\* skipped is the number of sources minus the number of failed ones.
C8_TalliesMatchOutcomes ==
    /\ success_count = Cardinality({i \in Sources : results[i] = "True"})
    /\ skip_count = Cardinality({i \in Sources : results[i] = "None"})
    /\ pc = "done" =>
          /\ \A i \in Sources : results[i] # "pending"
          /\ success_count + skip_count =
                 NumSources - Cardinality({i \in Sources : results[i] \in Failures})
    /\ Finished =>
          /\ results[idx - 1] = "True" => (response = "code_0" /\ posts[idx - 1] = 1)
          /\ results[idx - 1] = "None" =>
                 /\ Loadable(file)
                 /\ Truthy(get_last_commit_content(head))
                 /\ NothingNew
                 /\ posts[idx - 1] = 0
          /\ (~Loadable(file) \/ response \in {"transport_error", "code_nonzero"}) =>
                 results[idx - 1] \in Failures

\* the first source's file is missing, the second has nothing new
C8_Witness ==
    /\ pc = "done"
    /\ results[1] = "FileNotFoundError"
    /\ results[2] = "None"
    /\ success_count = 0
    /\ skip_count = 1

\* the state of the source being processed, in the terms of the state
\* machine Start, Loaded, NoBaseline | HasBaseline, Sent | Skipped | Failed
Phase ==
    CASE pc = "load" -> "Start"
      [] pc = "last" -> "Loaded"
      [] pc = "diff" -> "HasBaseline"
      [] pc \in {"branch", "reload", "build", "send"} ->
            IF current_episodes = NoneV THEN "Start"
            ELSE IF Truthy(last_data) THEN "HasBaseline" ELSE "NoBaseline"
      [] pc = "tally" ->
            IF result = "True" THEN "Sent"
            ELSE IF result = "None" THEN "Skipped" ELSE "Failed"
      [] pc = "except" -> "Failed"
      [] OTHER -> "Idle"

PhaseEdges ==
    {<<"Idle", "Idle">>, <<"Idle", "Start">>,
     <<"Start", "Start">>, <<"Start", "Loaded">>, <<"Start", "Failed">>,
     <<"Loaded", "NoBaseline">>, <<"Loaded", "HasBaseline">>,
     <<"NoBaseline", "NoBaseline">>, <<"NoBaseline", "Sent">>, <<"NoBaseline", "Failed">>,
     <<"HasBaseline", "HasBaseline">>, <<"HasBaseline", "Sent">>,
     <<"HasBaseline", "Skipped">>, <<"HasBaseline", "Failed">>,
     <<"Sent", "Idle">>, <<"Skipped", "Idle">>, <<"Failed", "Idle">>}

\* C9: the sources are processed one after another in configured order,
\* each along Start, Loaded, NoBaseline or HasBaseline, and one of Sent,
\* Skipped, Failed; at most one POST is issued per source, and none for a
\* source whose file could not be loaded.
C9_SequentialStateMachine ==
    /\ [][/\ <<Phase, Phase'>> \in PhaseEdges
          /\ idx' \in {idx, idx + 1}
          /\ idx' = idx + 1 <=> Phase \in {"Sent", "Skipped", "Failed"}
          /\ \A i \in Sources :
                /\ results'[i] # results[i] =>
                      (i = idx /\ results[i] = "pending" /\ idx' = idx + 1)
                /\ posts'[i] # posts[i] =>
                      /\ i = idx
                      /\ posts[i] = 0
                      /\ posts'[i] = 1
                      /\ Loadable(file)
                      /\ Phase \in {"NoBaseline", "HasBaseline"}]_vars
    /\ [](\A i \in Sources :
             /\ posts[i] <= 1
             /\ i > idx => (posts[i] = 0 /\ results[i] = "pending")
             /\ i < idx => results[i] # "pending"
             /\ (i = idx /\ pc # "loop" /\ ~Loadable(file)) => posts[i] = 0)

\* the first source was POSTed once and refused, the second could not be loaded
C9_Witness ==
    /\ pc = "done"
    /\ posts = [i \in Sources |-> IF i = 1 THEN 1 ELSE 0]
    /\ results[1] = "False"
    /\ results[2] = "JSONDecodeError"

====
